---- MODULE Spec2Model ----
(***************************************************************************)
(* State-machine model of the agenda backend: the appointment scheduler    *)
(* (app/routes/appointments.py), the technician absences                   *)
(* (app/routes/absences.py), the identity / token service                  *)
(* (app/routes/auth.py, app/services/auth.py, app/routes/companies.py),    *)
(* UserService (app/services/user_service.py), the prospect handlers       *)
(* (app/routes/prospect.py, app/routes/call_center_prospect.py), the       *)
(* share links (app/routes/share_links.py, app/models/share_link.py), the  *)
(* registration of companies, technicians and call centers                 *)
(* (app/routes/companies.py, app/routes/technician.py,                     *)
(* app/routes/call_center.py) and the WebSocket sessions (main.py).        *)
(*                                                                         *)
(* A handler is modelled from its own body: the database handle and the    *)
(* current_user it receives are inputs, and the framework's encoding of    *)
(* the value it returns is left out.                                       *)
(*                                                                         *)
(* Instants are minutes; the scheduler works on a 15 minute grid, the      *)
(* share links on hours.  Collections of the document                      *)
(* store are sets of records; a find_one is an existence test over the     *)
(* set, compared field by field as the query of the handler states it.     *)
(* An ISO date string is represented by the instant it denotes, and an     *)
(* identifier by one atom whether the handler holds it as text or as an    *)
(* ObjectId.                                                               *)
(***************************************************************************)
EXTENDS Integers, FiniteSets, Sequences, TLC

VARIABLES
    appointments,   \* db.appointments: set of appointment documents
    absences,       \* db.absences: set of absence documents
    nextId,         \* next _id the store hands to an inserted appointment
    pending,        \* create_appointment requests suspended between check and insert
    users,          \* db.users: user id -> [role, company_id, is_active, email]
    companies,      \* db.companies: id -> [is_active, token_invalidation_timestamp,
                    \*                      email, siret]
    tokens,         \* the access tokens issued so far
    revoked_tokens, \* db.revoked_tokens: set of [company_id, revocation_timestamp]
    now,            \* the reading of datetime.utcnow()
    response,       \* the last HTTP response: [op, status], with [caller, data] where read
    prospects,      \* db.prospects: set of prospect documents
    share_links,    \* db.share_links: set of share link documents
    technicians,    \* db.technicians: the _id of every document of the collection
    manager,        \* the ConnectionManager of main.py: its dictionaries by client_id
    websockets,     \* every WebSocket the server was handed: [client_id, state, ended]
    tasks           \* the heartbeat task each connect created, by the socket it was made for

identity == <<companies, tokens, revoked_tokens, now>>

\* The state of the WebSocket side of main.py
sessions == <<manager, websockets, tasks>>

vars == <<appointments, absences, nextId, pending, users, companies, tokens,
          revoked_tokens, now, response, prospects, share_links, technicians,
          manager, websockets, tasks>>

----------------------------------------------------------------------------
(* Bounds of the model *)

MaxSlot == 4
MaxAppointments == 2
MaxAbsences == 1
MaxClock == 3
MaxTokens == 2
MaxProspects == 2
MaxLinks == 1
MaxAccess == 2
MaxNewUsers == 2
MaxNewCompanies == 1
MaxSockets == 3

(* Program constants *)

WindowBefore == 15
WindowAfter == 45
AccessTokenExpireMinutes == 30
RefreshTokenExpireMinutes == 1440
MinutesPerHour == 60
HoursPerDay == 24
DaysPerMonth == 30
ToListLength == 1000

(* Sentinels *)

NoId == 0
NoDate == -1
BadDate == -2
BadId == -3
Absent == "absent"
NoCompany == "none"

----------------------------------------------------------------------------
(* Fixed population: two tenants, their technicians and prospects *)

CompanyIds == {"c1", "c2"}

\* db.users: technicians as create_technician stores them, and a1, a users
\* document of role admin with a company_id, as cascade_deactivate_admin reads
InitialUsers ==
    [t1 |-> [role |-> "technician", company_id |-> "c1", is_active |-> TRUE,
            email |-> "t1"],
     t2 |-> [role |-> "technician", company_id |-> "c1", is_active |-> TRUE,
            email |-> "t2"],
     t3 |-> [role |-> "technician", company_id |-> "c2", is_active |-> TRUE,
            email |-> "t3"],
     a1 |-> [role |-> "admin", company_id |-> "c1", is_active |-> TRUE,
            email |-> "a1"],
     s1 |-> [role |-> "super_admin", company_id |-> NoCompany, is_active |-> TRUE,
            email |-> "s1"],
     g1 |-> [role |-> "agent", company_id |-> "c1", is_active |-> TRUE,
            email |-> "g1"],
     w1 |-> [role |-> "work", company_id |-> "c1", is_active |-> TRUE,
            email |-> "w1"],
     g2 |-> [role |-> "agent", company_id |-> "c2", is_active |-> TRUE,
            email |-> "g2"]]
UserIds == DOMAIN InitialUsers
UnknownUser == "t0"

ProspectCompany == [p1 |-> "c1"]
ProspectIds == DOMAIN ProspectCompany
UnknownProspect == "p0"

InitialCompanies ==
    [c \in CompanyIds |-> [is_active |-> TRUE, token_invalidation_timestamp |-> NoDate,
                           email |-> c, siret |-> c]]
UnknownCompany == "c0"

Times == {15 * k : k \in 0..MaxSlot}

AppointmentStatus == {"created", "confirmed", "completed", "cancelled"}

\* get_current_user for a token of the organization itself
OwnerIdentity(c) == [id |-> c, role |-> "admin", company_id |-> c]

Callers == {OwnerIdentity(c) : c \in CompanyIds}

----------------------------------------------------------------------------
(* Store queries *)

find_prospect(prospect_id, company_id) ==
    /\ prospect_id \in ProspectIds
    /\ ProspectCompany[prospect_id] = company_id

find_user(user_id, company_id) ==
    /\ user_id \in DOMAIN users
    /\ users[user_id].company_id = company_id

find_appointment(appointment_id, company_id) ==
    {a \in appointments : a.id = appointment_id /\ a.company_id = company_id}

Reply(op, status) == response' = [op |-> op, status |-> status]

----------------------------------------------------------------------------
(* check_appointment_conflict *)

check_appointment_conflict_no_exclude(technician_id, appointment_date, company_id, exclude_appointment_id) ==
    LET start_time == appointment_date - WindowBefore
        end_time == appointment_date + WindowAfter
    IN  \/ \E a \in appointments :
              /\ a.technician_id = technician_id
              /\ a.company_id = company_id
              /\ a.dateTime >= start_time
              /\ a.dateTime <= end_time
        \/ \E b \in absences :
              /\ b.technician_id = technician_id
              /\ b.start_date <= end_time
              /\ b.end_date >= start_time

check_appointment_conflict_no_absence(technician_id, appointment_date, company_id, exclude_appointment_id) ==
    LET start_time == appointment_date - WindowBefore
        end_time == appointment_date + WindowAfter
    IN  \E a \in appointments :
            /\ a.technician_id = technician_id
            /\ a.company_id = company_id
            /\ a.dateTime >= start_time
            /\ a.dateTime <= end_time
            /\ (exclude_appointment_id # NoId => a.id # exclude_appointment_id)

check_appointment_conflict(technician_id, appointment_date, company_id, exclude_appointment_id) ==
    LET start_time == appointment_date - WindowBefore
        end_time == appointment_date + WindowAfter
        conflict ==
            \E a \in appointments :
                /\ a.technician_id = technician_id
                /\ a.company_id = company_id
                /\ a.dateTime >= start_time
                /\ a.dateTime <= end_time
                /\ (exclude_appointment_id # NoId => a.id # exclude_appointment_id)
        absence_conflict ==
            \E b \in absences :
                /\ b.technician_id = technician_id
                /\ b.start_date <= end_time
                /\ b.end_date >= start_time
    IN  conflict \/ absence_conflict

----------------------------------------------------------------------------
(* Appointment handlers, each run to completion *)

NewAppointment(current_user, prospect_id, technician_id, dateTime) ==
    [id |-> nextId,
     technician_id |-> technician_id,
     prospect_id |-> prospect_id,
     company_id |-> current_user.company_id,
     dateTime |-> dateTime,
     status |-> "created"]

\* The steps of create_appointment before its insert; 200 stands for "go on".
\* A malformed dateTime makes datetime.fromisoformat raise inside
\* check_appointment_conflict, which the handler answers as a 500.
create_precheck(current_user, prospect_id, technician_id, dateTime) ==
    IF ~find_prospect(prospect_id, current_user.company_id) THEN 404
    ELSE IF ~find_user(technician_id, current_user.company_id) THEN 404
    ELSE IF dateTime = BadDate THEN 500
    ELSE IF check_appointment_conflict(technician_id, dateTime,
                                       current_user.company_id, NoId) THEN 409
    ELSE 200

create_appointment_insert_on_conflict(current_user, prospect_id, technician_id, dateTime) ==
    LET code == create_precheck(current_user, prospect_id, technician_id, dateTime)
    IN  /\ UNCHANGED <<sessions, technicians, prospects, share_links, absences, pending, users, identity>>
        /\ IF code \in {404, 500}
           THEN Reply("create_appointment", code) /\ UNCHANGED <<appointments, nextId>>
           ELSE /\ nextId <= MaxAppointments
                /\ appointments' = appointments \cup
                       {NewAppointment(current_user, prospect_id, technician_id, dateTime)}
                /\ nextId' = nextId + 1
                /\ Reply("create_appointment", code)

create_appointment(current_user, prospect_id, technician_id, dateTime) ==
    LET code == create_precheck(current_user, prospect_id, technician_id, dateTime)
    IN  /\ UNCHANGED <<sessions, technicians, prospects, share_links, absences, pending, users, identity>>
        /\ IF code # 200
           THEN Reply("create_appointment", code) /\ UNCHANGED <<appointments, nextId>>
           ELSE /\ nextId <= MaxAppointments
                /\ appointments' = appointments \cup
                       {NewAppointment(current_user, prospect_id, technician_id, dateTime)}
                /\ nextId' = nextId + 1
                /\ Reply("create_appointment", 200)

\* {"$set": appointment_data}: every key of the body overwrites the stored field
ApplySet(a, appointment_data) ==
    [a EXCEPT
        !.technician_id = IF appointment_data.technician_id # Absent
                          THEN appointment_data.technician_id ELSE @,
        !.dateTime = IF appointment_data.dateTime # NoDate
                     THEN appointment_data.dateTime ELSE @,
        !.status = IF appointment_data.status # Absent
                   THEN appointment_data.status ELSE @,
        !.company_id = IF appointment_data.company_id # Absent
                       THEN appointment_data.company_id ELSE @]

\* The technician and the instant update_appointment hands to the conflict check
EffectiveTechnician(a, appointment_data) ==
    IF appointment_data.technician_id # Absent
    THEN appointment_data.technician_id ELSE a.technician_id

EffectiveDate(a, appointment_data) ==
    IF appointment_data.dateTime # NoDate
    THEN appointment_data.dateTime ELSE a.dateTime

\* The steps of update_appointment before its update_one; 200 stands for "go on"
update_precheck(current_user, appointment_id, appointment_data) ==
    LET found == find_appointment(appointment_id, current_user.company_id)
    IN  IF found = {} THEN 404
        ELSE LET existing_appointment == CHOOSE a \in found : TRUE
             IN  IF /\ appointment_data.technician_id # Absent
                    /\ ~find_user(appointment_data.technician_id,
                                  current_user.company_id)
                 THEN 404
                 ELSE IF /\ \/ appointment_data.dateTime # NoDate
                            \/ appointment_data.technician_id # Absent
                         /\ check_appointment_conflict(
                                EffectiveTechnician(existing_appointment, appointment_data),
                                EffectiveDate(existing_appointment, appointment_data),
                                current_user.company_id, appointment_id)
                 THEN 409
                 ELSE 200

update_appointment(current_user, appointment_id, appointment_data) ==
    LET code == update_precheck(current_user, appointment_id, appointment_data)
        found == find_appointment(appointment_id, current_user.company_id)
    IN  /\ UNCHANGED <<sessions, technicians, prospects, share_links, absences, nextId, pending, users, identity>>
        /\ IF code # 200
           THEN Reply("update_appointment", code) /\ UNCHANGED appointments
           ELSE /\ appointments' = (appointments \ found) \cup
                       {ApplySet(a, appointment_data) : a \in found}
                /\ Reply("update_appointment", 200)

\* In the three handlers below the HTTPException(404) is raised inside the try
\* block and caught by the handler's own "except Exception", which answers 500.
delete_appointment(current_user, appointment_id) ==
    LET found == find_appointment(appointment_id, current_user.company_id)
    IN  /\ UNCHANGED <<sessions, technicians, prospects, share_links, absences, nextId, pending, users, identity>>
        /\ IF found = {}
           THEN Reply("delete_appointment", 500) /\ UNCHANGED appointments
           ELSE /\ appointments' = appointments \ found
                /\ Reply("delete_appointment", 200)

get_appointment(current_user, appointment_id) ==
    LET found == find_appointment(appointment_id, current_user.company_id)
    IN  /\ UNCHANGED <<sessions, technicians, prospects, share_links, appointments, absences, nextId, pending, users, identity>>
        /\ IF found = {}
           THEN Reply("get_appointment", 500)
           ELSE Reply("get_appointment", 200)

update_appointment_status(current_user, appointment_id, status) ==
    LET found == find_appointment(appointment_id, current_user.company_id)
    IN  /\ UNCHANGED <<sessions, technicians, prospects, share_links, absences, nextId, pending, users, identity>>
        /\ IF found = {}
           THEN Reply("update_appointment_status", 500) /\ UNCHANGED appointments
           ELSE /\ appointments' =
                       {IF a.id = appointment_id THEN [a EXCEPT !.status = status] ELSE a :
                            a \in appointments}
                /\ Reply("update_appointment_status", 200)

\* create_absence stores the body as received, with the caller's company_id;
\* its 404 is raised inside the try block and answered as a 500
create_absence(current_user, technician_id, start_date, end_date) ==
    /\ UNCHANGED <<sessions, technicians, prospects, share_links, appointments, nextId, pending, users, identity>>
    /\ IF ~find_user(technician_id, current_user.company_id)
       THEN Reply("create_absence", 500) /\ UNCHANGED absences
       ELSE /\ Cardinality(absences) < MaxAbsences
            /\ absences' = absences \cup
                   {[technician_id |-> technician_id,
                     company_id |-> current_user.company_id,
                     start_date |-> start_date,
                     end_date |-> end_date]}
            /\ Reply("create_absence", 200)

----------------------------------------------------------------------------
(* create_appointment as two steps: the reads up to the conflict check, then  *)
(* the insert, with other requests free to run at the await between them      *)

NoPending == [pc |-> "idle", current_user |-> OwnerIdentity("c1"),
              prospect_id |-> UnknownProspect, technician_id |-> UnknownUser,
              dateTime |-> NoDate]

Requests == {"r1", "r2"}

create_check(r, current_user, prospect_id, technician_id, dateTime) ==
    LET code == create_precheck(current_user, prospect_id, technician_id, dateTime)
    IN  /\ pending[r].pc = "idle"
        /\ UNCHANGED <<sessions, technicians, prospects, share_links, appointments, absences, nextId, users, identity>>
        /\ IF code # 200
           THEN Reply("create_appointment", code) /\ UNCHANGED pending
           ELSE /\ pending' = [pending EXCEPT ![r] =
                       [pc |-> "checked", current_user |-> current_user,
                        prospect_id |-> prospect_id, technician_id |-> technician_id,
                        dateTime |-> dateTime]]
                /\ UNCHANGED response

create_insert_rechecked(r) ==
    /\ pending[r].pc = "checked"
    /\ UNCHANGED <<sessions, technicians, prospects, share_links, absences, users, identity>>
    /\ pending' = [pending EXCEPT ![r] = NoPending]
    /\ IF check_appointment_conflict(pending[r].technician_id, pending[r].dateTime,
                                     pending[r].current_user.company_id, NoId)
       THEN Reply("create_appointment", 409) /\ UNCHANGED <<appointments, nextId>>
       ELSE /\ nextId <= MaxAppointments
            /\ appointments' = appointments \cup
                   {NewAppointment(pending[r].current_user, pending[r].prospect_id,
                                   pending[r].technician_id, pending[r].dateTime)}
            /\ nextId' = nextId + 1
            /\ Reply("create_appointment", 200)

create_insert(r) ==
    /\ pending[r].pc = "checked"
    /\ nextId <= MaxAppointments
    /\ UNCHANGED <<sessions, technicians, prospects, share_links, absences, users, identity>>
    /\ appointments' = appointments \cup
           {NewAppointment(pending[r].current_user, pending[r].prospect_id,
                           pending[r].technician_id, pending[r].dateTime)}
    /\ nextId' = nextId + 1
    /\ pending' = [pending EXCEPT ![r] = NoPending]
    /\ Reply("create_appointment", 200)

----------------------------------------------------------------------------
(* Identity and token service *)

\* create_access_token over login's data {"sub": email}: the payload carries
\* sub and exp only, so company_id and iat are absent.  signed tells a token
\* of this service from a forged one; issued_at is the instant of issue, which
\* the payload does not carry.
AccessToken(email) ==
    [sub |-> email, exp |-> now + AccessTokenExpireMinutes,
     company_id |-> NoCompany, iat |-> NoDate, signed |-> TRUE, issued_at |-> now]

ForgedToken ==
    [sub |-> "c1", exp |-> 15 * MaxClock + AccessTokenExpireMinutes,
     company_id |-> NoCompany, iat |-> NoDate, signed |-> FALSE, issued_at |-> 0]

\* jwt.decode: signature and expiry
decode(token) == token.signed /\ now <= token.exp

NoIdentity == [id |-> "none", role |-> "none", company_id |-> NoCompany]

authenticate_user(email, password_ok) ==
    IF email \in DOMAIN users
    THEN password_ok
    ELSE IF email \in DOMAIN companies
    THEN password_ok /\ companies[email].is_active
    ELSE FALSE

login(email, password_ok) ==
    /\ UNCHANGED <<sessions, technicians, prospects, share_links, appointments, absences, nextId, pending, users,
                   companies, revoked_tokens, now>>
    /\ IF ~authenticate_user(email, password_ok)
       THEN Reply("login", 401) /\ UNCHANGED tokens
       ELSE /\ Cardinality(tokens) < MaxTokens
            /\ tokens' = tokens \cup {AccessToken(email)}
            /\ Reply("login", 200)

\* The identity get_current_user returns, NoIdentity where it raises the 401
get_current_user(token) ==
    IF ~decode(token) THEN NoIdentity
    ELSE IF token.sub \in DOMAIN users
    THEN [id |-> token.sub, role |-> users[token.sub].role,
          company_id |-> users[token.sub].company_id]
    ELSE IF token.sub \in DOMAIN companies
    THEN OwnerIdentity(token.sub)
    ELSE NoIdentity

\* GET /me, guarded by get_current_user
read_users_me(token) ==
    /\ UNCHANGED <<sessions, technicians, prospects, share_links, appointments, absences, nextId, pending, users, identity>>
    /\ IF get_current_user(token) = NoIdentity
       THEN Reply("read_users_me", 401)
       ELSE Reply("read_users_me", 200)

\* GET /appointments, guarded by verify_admin over get_current_user
get_appointments(token) ==
    LET current_user == get_current_user(token)
    IN  /\ UNCHANGED <<sessions, technicians, prospects, share_links, appointments, absences, nextId, pending, users, identity>>
        /\ IF current_user = NoIdentity
           THEN Reply("get_appointments", 401)
           ELSE IF current_user.role \notin {"super_admin", "admin"}
           THEN Reply("get_appointments", 403)
           ELSE Reply("get_appointments", 200)

\* AuthService.verify_token: 200 where it returns the payload.  A payload
\* without company_id resolves to no company; one with a company and no iat
\* fails on payload["iat"] with an error that is not a JWTError.
verify_token(token) ==
    /\ UNCHANGED <<sessions, technicians, prospects, share_links, appointments, absences, nextId, pending, users, identity>>
    /\ IF ~decode(token)
       THEN Reply("verify_token", 401)
       ELSE IF /\ token.company_id \in DOMAIN companies
               /\ companies[token.company_id].token_invalidation_timestamp # NoDate
       THEN IF token.iat = NoDate
            THEN Reply("verify_token", 500)
            ELSE IF token.iat < companies[token.company_id].token_invalidation_timestamp
            THEN Reply("verify_token", 401)
            ELSE Reply("verify_token", 200)
       ELSE Reply("verify_token", 200)

\* create_access_token over the data refresh_access_token builds: the claims
\* of the presented token, iat set to the current instant, 24 hours to live
RefreshedToken(token) ==
    [sub |-> token.sub, exp |-> now + RefreshTokenExpireMinutes,
     company_id |-> token.company_id, iat |-> now, signed |-> TRUE,
     issued_at |-> now]

\* POST /refresh-token.  The revocation test runs only for a payload carrying
\* company_id, and the HTTPException(401) it raises is caught by the
\* "except Exception" around it, which logs and goes on: only a token that
\* fails jwt.decode is refused.
refresh_access_token(token) ==
    /\ UNCHANGED <<sessions, technicians, prospects, share_links, appointments, absences, nextId, pending, users,
                   companies, revoked_tokens, now>>
    /\ IF ~decode(token)
       THEN Reply("refresh_access_token", 401) /\ UNCHANGED tokens
       ELSE /\ Cardinality(tokens) < MaxTokens
            /\ tokens' = tokens \cup {RefreshedToken(token)}
            /\ Reply("refresh_access_token", 200)

\* users.update_many({"company_id": ...}, {"$set": {"is_active": False}})
DeactivateUsers(company_id) ==
    [u \in DOMAIN users |->
        IF users[u].company_id = company_id
        THEN [users[u] EXCEPT !.is_active = FALSE] ELSE users[u]]

toggle_company_lock_restoring(company_id) ==
    /\ UNCHANGED <<sessions, technicians, prospects, share_links, appointments, absences, nextId, pending, tokens, now>>
    /\ IF company_id \notin DOMAIN companies
       THEN Reply("toggle_company_lock", 500)
            /\ UNCHANGED <<companies, users, revoked_tokens>>
       ELSE LET new_status == ~companies[company_id].is_active
            IN  IF new_status
                THEN /\ companies' = [companies EXCEPT
                            ![company_id].is_active = TRUE,
                            ![company_id].token_invalidation_timestamp = NoDate]
                     /\ users' = [u \in DOMAIN users |->
                                     IF users[u].company_id = company_id
                                     THEN [users[u] EXCEPT !.is_active = TRUE]
                                     ELSE users[u]]
                     /\ UNCHANGED revoked_tokens
                     /\ Reply("toggle_company_lock", 200)
                ELSE /\ companies' = [companies EXCEPT
                            ![company_id].is_active = FALSE,
                            ![company_id].token_invalidation_timestamp = now]
                     /\ users' = DeactivateUsers(company_id)
                     /\ revoked_tokens' = revoked_tokens \cup
                            {[company_id |-> company_id, revocation_timestamp |-> now]}
                     /\ Reply("toggle_company_lock", 200)

\* POST /{company_id}/toggle-lock; on deactivation it ends with
\* invalidate_company_tokens, which stamps the company and registers the entry
toggle_company_lock(company_id) ==
    /\ UNCHANGED <<sessions, technicians, prospects, share_links, appointments, absences, nextId, pending, tokens, now>>
    /\ IF company_id \notin DOMAIN companies
       THEN Reply("toggle_company_lock", 500)
            /\ UNCHANGED <<companies, users, revoked_tokens>>
       ELSE LET new_status == ~companies[company_id].is_active
            IN  IF new_status
                THEN /\ companies' = [companies EXCEPT ![company_id].is_active = TRUE]
                     /\ UNCHANGED <<users, revoked_tokens>>
                     /\ Reply("toggle_company_lock", 200)
                ELSE /\ companies' = [companies EXCEPT
                            ![company_id].is_active = FALSE,
                            ![company_id].token_invalidation_timestamp = now]
                     /\ users' = DeactivateUsers(company_id)
                     /\ revoked_tokens' = revoked_tokens \cup
                            {[company_id |-> company_id, revocation_timestamp |-> now]}
                     /\ Reply("toggle_company_lock", 200)

\* AuthService.cascade_deactivate_admin returns True (200 here) or, from its
\* blanket except, False (500 here)
cascade_deactivate_admin(admin_id) ==
    /\ UNCHANGED <<sessions, technicians, prospects, share_links, appointments, absences, nextId, pending, tokens,
                   revoked_tokens, now>>
    /\ IF admin_id \notin DOMAIN users \/ users[admin_id].role # "admin"
       THEN Reply("cascade_deactivate_admin", 500) /\ UNCHANGED <<companies, users>>
       ELSE LET company_id == users[admin_id].company_id
            IN  /\ companies' = [companies EXCEPT
                       ![company_id].is_active = FALSE,
                       ![company_id].token_invalidation_timestamp = now]
                /\ users' = DeactivateUsers(company_id)
                /\ Reply("cascade_deactivate_admin", 200)

\* POST /technicians/{technician_id}/toggle-status; its 404 is answered as a 500
toggle_technician_status(current_user, technician_id) ==
    /\ UNCHANGED <<sessions, technicians, prospects, share_links, appointments, absences, nextId, pending, identity>>
    /\ IF ~( /\ find_user(technician_id, current_user.company_id)
             /\ users[technician_id].role = "technician" )
       THEN Reply("toggle_technician_status", 500) /\ UNCHANGED users
       ELSE /\ users' = [users EXCEPT ![technician_id].is_active = ~@]
            /\ Reply("toggle_technician_status", 200)

\* The _id the store gives the next inserted users / companies document
UserIdPool == <<"n1", "n2", "n3">>
CompanyIdPool == <<"c3", "c4">>

NewUserIds ==
    {UserIdPool[k] : k \in {j \in 1..Len(UserIdPool) : j <= MaxNewUsers}}
NewCompanyIds ==
    {CompanyIdPool[k] : k \in {j \in 1..Len(CompanyIdPool) : j <= MaxNewCompanies}}

inserted_id(pool, taken) ==
    pool[CHOOSE k \in 1..Len(pool) :
            /\ pool[k] \notin taken
            /\ \A j \in 1..(k - 1) : pool[j] \in taken]

\* db.users.find_one({"email": email}) and db.companies.find_one({"email": email})
existing_user(email) == \E u \in DOMAIN users : users[u].email = email
existing_company(email) == \E c \in DOMAIN companies : companies[c].email = email

\* What becomes of the send of the credentials: the mail service answers 200,
\* answers another status, or the call raises (connection error, timeout)
Delivery == {"sent", "refused", "raises"}

\* POST /companies/.  Its 409 passes through "except HTTPException: raise";
\* the send of the credentials sits in its own try / except, which logs
create_company(siret, email, delivery) ==
    /\ UNCHANGED <<sessions, technicians, prospects, share_links, appointments, absences, nextId, pending, users,
                   tokens, revoked_tokens, now>>
    /\ IF \E c \in DOMAIN companies : companies[c].siret = siret
       THEN Reply("create_company", 409) /\ UNCHANGED companies
       ELSE IF existing_company(email) \/ existing_user(email)
       THEN Reply("create_company", 409) /\ UNCHANGED companies
       ELSE /\ NewCompanyIds \ DOMAIN companies # {}
            /\ companies' = companies @@
                   (inserted_id(CompanyIdPool, DOMAIN companies) :>
                       [is_active |-> TRUE, token_invalidation_timestamp |-> NoDate,
                        email |-> email, siret |-> siret])
            /\ Reply("create_company", 200)

\* PUT /companies/{company_id}.  Every HTTPException raised inside, the 404 and
\* the 409 included, is answered as 500 by the "except Exception" of the
\* handler; is_active is written as received and the users are not touched.
update_company(company_id, siret, email, is_active) ==
    /\ UNCHANGED <<sessions, technicians, prospects, share_links, appointments, absences, nextId, pending, users,
                   tokens, revoked_tokens, now>>
    /\ IF company_id \notin DOMAIN companies
       THEN Reply("update_company", 500) /\ UNCHANGED companies
       ELSE IF /\ siret # companies[company_id].siret
               /\ \E c \in DOMAIN companies \ {company_id} : companies[c].siret = siret
       THEN Reply("update_company", 500) /\ UNCHANGED companies
       ELSE IF /\ email # companies[company_id].email
               /\ \/ \E c \in DOMAIN companies \ {company_id} : companies[c].email = email
                  \/ existing_user(email)
       THEN Reply("update_company", 500) /\ UNCHANGED companies
       ELSE /\ companies' = [companies EXCEPT ![company_id].siret = siret,
                                              ![company_id].email = email,
                                              ![company_id].is_active = is_active]
            /\ Reply("update_company", 200)

\* The users document create_technician and create_call_center insert
NewUser(current_user, role, email) ==
    [role |-> role, company_id |-> current_user.company_id, is_active |-> TRUE,
     email |-> email]

\* POST /technicians.  The 409 is raised inside the try and answered as 500.
\* The document is inserted before the credentials are posted; a post that
\* raises reaches the same "except Exception", a status other than 200 is logged.
create_technician(current_user, email, delivery) ==
    /\ UNCHANGED <<sessions, technicians, prospects, share_links, appointments, absences, nextId, pending, identity>>
    /\ IF existing_user(email) \/ existing_company(email)
       THEN Reply("create_technician", 500) /\ UNCHANGED users
       ELSE /\ NewUserIds \ DOMAIN users # {}
            /\ users' = users @@
                   (inserted_id(UserIdPool, DOMAIN users) :>
                       NewUser(current_user, "technician", email))
            /\ IF delivery = "raises"
               THEN Reply("create_technician", 500)
               ELSE Reply("create_technician", 200)

\* POST /call-centers.  The e-mail is looked up in db.users only.
create_call_center(current_user, email, delivery) ==
    /\ UNCHANGED <<sessions, technicians, prospects, share_links, appointments, absences, nextId, pending, identity>>
    /\ IF existing_user(email)
       THEN Reply("create_call_center", 500) /\ UNCHANGED users
       ELSE /\ NewUserIds \ DOMAIN users # {}
            /\ users' = users @@
                   (inserted_id(UserIdPool, DOMAIN users) :>
                       NewUser(current_user, "call_center", email))
            /\ IF delivery = "raises"
               THEN Reply("create_call_center", 500)
               ELSE Reply("create_call_center", 200)

\* Time passes between requests
Tick ==
    /\ now < 15 * MaxClock
    /\ now' = now + 15
    /\ UNCHANGED <<sessions, technicians, prospects, share_links, appointments, absences, nextId, pending, users,
                   companies, tokens, revoked_tokens, response>>

----------------------------------------------------------------------------
(* UserService.  A raised ValueError is recorded as 400, any other exception  *)
(* as 500, a normal return as 200.                                            *)

UserRole == {"super_admin", "admin", "agent", "work"}

\* _verify_creation_permissions: allowed_creations
allowed_creations ==
    [super_admin |-> {"admin"}, admin |-> {"agent", "work"},
     agent |-> {"work"}, work |-> {}]

\* _can_modify_user: role_hierarchy
role_hierarchy == [super_admin |-> 4, admin |-> 3, agent |-> 2, work |-> 1]

_can_modify_user(modifier_role, target_role) ==
    role_hierarchy[modifier_role] > role_hierarchy[target_role]

\* get_user_by_id builds UserInDB(**user), which refuses a role outside UserRole
get_user_by_id_ok(user_id) == users[user_id].role \in UserRole

\* The class defines create_user twice; the later definition is the method.
\* It ends after the e-mail test: nothing is inserted on any path.
create_user(creator_id, role, email) ==
    /\ UNCHANGED <<sessions, technicians, prospects, share_links, appointments, absences, nextId, pending, users, identity>>
    /\ IF creator_id \notin DOMAIN users
       THEN Reply("create_user", 400)
       ELSE IF users[creator_id].role \notin DOMAIN allowed_creations
       THEN Reply("create_user", 500)
       ELSE IF role \notin allowed_creations[users[creator_id].role]
       THEN Reply("create_user", 400)
       ELSE IF email \in DOMAIN users
       THEN Reply("create_user", 400)
       ELSE Reply("create_user", 200)

\* The test both update_user and delete_user make before they write
modify_precheck(actor_id, user_id) ==
    IF actor_id \notin DOMAIN users \/ user_id \notin DOMAIN users THEN 400
    ELSE IF ~get_user_by_id_ok(actor_id) \/ ~get_user_by_id_ok(user_id) THEN 500
    ELSE IF ~_can_modify_user(users[actor_id].role, users[user_id].role) THEN 400
    ELSE 200

update_user(updater_id, user_id, is_active) ==
    LET code == modify_precheck(updater_id, user_id)
    IN  /\ UNCHANGED <<sessions, technicians, prospects, share_links, appointments, absences, nextId, pending, identity>>
        /\ Reply("update_user", code)
        /\ users' = IF code = 200
                    THEN [users EXCEPT ![user_id].is_active = is_active]
                    ELSE users

delete_user(deleter_id, user_id) ==
    LET code == modify_precheck(deleter_id, user_id)
    IN  /\ UNCHANGED <<sessions, technicians, prospects, share_links, appointments, absences, nextId, pending, identity>>
        /\ Reply("delete_user", code)
        /\ users' = IF code = 200
                    THEN [u \in DOMAIN users \ {user_id} |-> users[u]]
                    ELSE users

----------------------------------------------------------------------------
(* Prospects as the call-center module handles them                          *)
(* (app/routes/call_center_prospect.py).  current_user is the dictionary the *)
(* handler receives from its dependency; a response records the caller and   *)
(* the _id of every document it returns.                                     *)

ProcessingStatus == {"created", "confirmed", "new_plan", "completed", "cancelled"}

ProspectCallers ==
    {[id |-> "a1", role |-> "admin", company_id |-> "c1"],
     [id |-> "a2", role |-> "admin", company_id |-> "c2"],
     [id |-> "k1", role |-> "call_center", company_id |-> "c1"],
     [id |-> "k2", role |-> "call_center", company_id |-> "c1"],
     [id |-> "k3", role |-> "call_center", company_id |-> "c2"]}

ReplyData(op, status, caller, data) ==
    response' = [op |-> op, status |-> status, caller |-> caller, data |-> data]

find_prospect_by_id(prospect_id) == {p \in prospects : p._id = prospect_id}

\* The authorisation test of update_prospect, delete_prospect and get_prospect
prospect_access(current_user, prospect) ==
    \/ current_user.id = prospect.call_center_id
    \/ current_user.role \in {"admin", "super_admin"}

call_center_create_prospect(current_user, email, processing_status) ==
    /\ UNCHANGED <<sessions, technicians, share_links, appointments, absences, pending, users, identity>>
    /\ IF current_user.role # "call_center"
       THEN /\ ReplyData("call_center_create_prospect", 403, current_user, {})
            /\ UNCHANGED <<prospects, nextId>>
       ELSE /\ nextId <= MaxProspects
            /\ prospects' = prospects \cup
                   {[_id |-> nextId, company_id |-> current_user.company_id,
                     call_center_id |-> current_user.id, email |-> email,
                     processing_status |-> processing_status]}
            /\ nextId' = nextId + 1
            /\ ReplyData("call_center_create_prospect", 201, current_user, {nextId})

\* 200 when the handler goes on to its store operation, else the status raised
call_center_prospect_precheck(current_user, prospect_id) ==
    LET found == find_prospect_by_id(prospect_id)
    IN  IF prospect_id = BadId THEN 400
        ELSE IF found = {} THEN 404
        ELSE IF ~prospect_access(current_user, CHOOSE p \in found : TRUE) THEN 403
        ELSE 200

call_center_update_prospect(current_user, prospect_id, prospect_data) ==
    LET code == call_center_prospect_precheck(current_user, prospect_id)
        \* call_center_id, company_id and created_at are deleted from the body
        set == prospect_data.processing_status
    IN  /\ UNCHANGED <<sessions, technicians, share_links, appointments, absences, nextId, pending, users, identity>>
        /\ IF code # 200
           THEN /\ ReplyData("call_center_update_prospect", code, current_user, {})
                /\ UNCHANGED prospects
           ELSE IF set \notin ProcessingStatus \cup {Absent}
           THEN /\ ReplyData("call_center_update_prospect", 400, current_user, {})
                /\ UNCHANGED prospects
           ELSE /\ prospects' =
                       {IF p._id = prospect_id /\ set # Absent
                        THEN [p EXCEPT !.processing_status = set] ELSE p : p \in prospects}
                /\ ReplyData("call_center_update_prospect", 200, current_user, {prospect_id})

call_center_delete_prospect(current_user, prospect_id) ==
    LET code == call_center_prospect_precheck(current_user, prospect_id)
    IN  /\ UNCHANGED <<sessions, technicians, share_links, appointments, absences, nextId, pending, users, identity>>
        /\ ReplyData("call_center_delete_prospect", code, current_user, {})
        /\ prospects' = IF code = 200
                        THEN {p \in prospects : p._id # prospect_id}
                        ELSE prospects

call_center_get_prospect(current_user, prospect_id) ==
    LET code == call_center_prospect_precheck(current_user, prospect_id)
    IN  /\ UNCHANGED <<sessions, technicians, prospects, share_links, appointments, absences, nextId, pending, users, identity>>
        /\ ReplyData("call_center_get_prospect", code, current_user,
                     IF code = 200 THEN {prospect_id} ELSE {})

get_prospects_by_call_center(current_user, call_center_id) ==
    /\ UNCHANGED <<sessions, technicians, prospects, share_links, appointments, absences, nextId, pending, users, identity>>
    /\ IF ~(current_user.id = call_center_id \/ current_user.role \in {"admin", "super_admin"})
       THEN ReplyData("get_prospects_by_call_center", 403, current_user, {})
       ELSE ReplyData("get_prospects_by_call_center", 200, current_user,
                      {p._id : p \in {q \in prospects : q.call_center_id = call_center_id}})

----------------------------------------------------------------------------
(* Prospects as the mounted router handles them (app/routes/prospect.py).    *)
(* Every handler wraps its body in try / except Exception, so an             *)
(* HTTPException raised inside is answered as 500.                           *)

PipelineCallers ==
    ProspectCallers \cup
        {[id |-> "s1", role |-> "super_admin", company_id |-> Absent],
         [id |-> "g1", role |-> "agent", company_id |-> "c1"]}

\* cursor.to_list(length): every document when there are at most length of them
to_list(documents, length) ==
    IF Cardinality(documents) <= length THEN documents
    ELSE CHOOSE s \in SUBSET documents : Cardinality(s) = length

\* get_prospects, a call center being shown its whole tenant
visible_prospects_of_tenant(current_user) ==
    IF current_user.role \in {"super_admin", "admin", "call_center"}
    THEN IF current_user.company_id = Absent
         THEN [status |-> 500, data |-> {}]
         ELSE [status |-> 200,
               data |-> {p._id : p \in to_list({q \in prospects :
                             q.company_id = current_user.company_id}, ToListLength)}]
    ELSE [status |-> 500, data |-> {}]

\* get_prospects: the answer and the documents listed
visible_prospects(current_user) ==
    IF current_user.role \in {"super_admin", "admin"}
    THEN IF current_user.company_id = Absent
         THEN [status |-> 500, data |-> {}]
         ELSE [status |-> 200,
               data |-> {p._id : p \in to_list({q \in prospects :
                             q.company_id = current_user.company_id}, ToListLength)}]
    ELSE IF current_user.role = "call_center"
    THEN [status |-> 200,
          data |-> {p._id : p \in to_list({q \in prospects :
                        q.call_center_id = current_user.id}, ToListLength)}]
    ELSE [status |-> 500, data |-> {}]

get_prospects(current_user) ==
    LET answer == visible_prospects(current_user)
    IN  /\ UNCHANGED <<sessions, technicians, prospects, share_links, appointments, absences, nextId, pending, users, identity>>
        /\ ReplyData("get_prospects", answer.status, current_user, answer.data)

\* company_id of the document create_prospect builds
prospect_company(current_user, prospect_data) ==
    IF current_user.company_id # Absent THEN current_user.company_id
    ELSE IF /\ current_user.role = "call_center"
            /\ current_user.id \in DOMAIN users
            /\ users[current_user.id].company_id # NoCompany
    THEN users[current_user.id].company_id
    ELSE prospect_data.company_id

create_prospect(current_user, prospect_data) ==
    LET company_id == prospect_company(current_user, prospect_data)
    IN  /\ UNCHANGED <<sessions, technicians, share_links, appointments, absences, pending, users, identity>>
        /\ IF \/ \E p \in prospects : p.email = prospect_data.email
              \/ company_id = Absent
           THEN /\ ReplyData("create_prospect", 500, current_user, {})
                /\ UNCHANGED <<prospects, nextId>>
           ELSE /\ nextId <= MaxProspects
                /\ prospects' = prospects \cup
                       {[_id |-> nextId, company_id |-> company_id,
                         call_center_id |-> IF current_user.role = "call_center"
                                            THEN current_user.id
                                            ELSE prospect_data.call_center_id,
                         email |-> prospect_data.email,
                         processing_status |-> prospect_data.processing_status]}
                /\ nextId' = nextId + 1
                /\ ReplyData("create_prospect", 200, current_user, {nextId})

get_prospect(current_user, prospect_id) ==
    LET found == {p \in prospects :
                     /\ p._id = prospect_id
                     /\ current_user.role \in {"super_admin", "admin"}
                        => p.company_id = current_user.company_id
                     /\ current_user.role = "call_center"
                        => p.call_center_id = current_user.id}
    IN  /\ UNCHANGED <<sessions, technicians, prospects, share_links, appointments, absences, nextId, pending, users, identity>>
        /\ IF \/ prospect_id = BadId
              \/ current_user.role \in {"super_admin", "admin"} /\ current_user.company_id = Absent
              \/ found = {}
           THEN ReplyData("get_prospect", 500, current_user, {})
           ELSE ReplyData("get_prospect", 200, current_user, {prospect_id})

\* update_prospect of prospect.py: the 404, 409 and 400 it raises are answered
\* as 500 by its except clause
update_prospect(current_user, prospect_id, prospect_data) ==
    LET found == {p \in prospects :
                     /\ p._id = prospect_id
                     /\ current_user.role \in {"super_admin", "admin"}
                        => p.company_id = current_user.company_id
                     /\ current_user.role = "call_center"
                        => p.call_center_id = current_user.id}
    IN  /\ UNCHANGED <<sessions, technicians, share_links, appointments, absences, nextId, pending, users, identity>>
        /\ IF \/ prospect_id = BadId
              \/ current_user.role \in {"super_admin", "admin"} /\ current_user.company_id = Absent
              \/ found = {}
              \/ /\ prospect_data.email # Absent
                 /\ \E p \in prospects : p.email = prospect_data.email /\ p._id # prospect_id
              \/ prospect_data.processing_status \notin ProcessingStatus \cup {Absent}
           THEN /\ ReplyData("update_prospect", 500, current_user, {})
                /\ UNCHANGED prospects
           ELSE /\ prospects' =
                       {IF p \in found
                        THEN [p EXCEPT
                                !.email = IF prospect_data.email = Absent
                                          THEN @ ELSE prospect_data.email,
                                !.processing_status =
                                    IF prospect_data.processing_status = Absent
                                    THEN @ ELSE prospect_data.processing_status,
                                !.company_id = IF prospect_data.company_id = Absent
                                               THEN @ ELSE prospect_data.company_id,
                                !.call_center_id =
                                    IF prospect_data.call_center_id = Absent
                                    THEN @ ELSE prospect_data.call_center_id]
                        ELSE p : p \in prospects}
                /\ ReplyData("update_prospect", 200, current_user, {prospect_id})

----------------------------------------------------------------------------
(* Share links (app/routes/share_links.py, app/models/share_link.py).  A     *)
(* handler that returns is recorded with its success status; the token of    *)
(* secrets.token_urlsafe is a value no stored link holds.  No handler writes *)
(* db.technicians: the collection is maintained outside this code, and a     *)
(* document of it may be gone between two requests.                          *)

InitialTechnicians == {"t1", "t3"}

NoToken == 0
NoUser == "nobody"
allowed_units == {"hours", "days", "months"}

\* ShareLinkCreate.calculate_expiry, as months of 31 days
calculate_expiry_calendar_month(duration, duration_unit) ==
    IF duration_unit = "hours" THEN now + MinutesPerHour * duration
    ELSE IF duration_unit = "days" THEN now + MinutesPerHour * HoursPerDay * duration
    ELSE IF duration_unit = "months"
    THEN now + MinutesPerHour * HoursPerDay * (DaysPerMonth + 1) * duration
    ELSE now + MinutesPerHour * duration

\* ShareLinkCreate.calculate_expiry
calculate_expiry(duration, duration_unit) ==
    IF duration_unit = "hours" THEN now + MinutesPerHour * duration
    ELSE IF duration_unit = "days" THEN now + MinutesPerHour * HoursPerDay * duration
    ELSE IF duration_unit = "months"
    THEN now + MinutesPerHour * HoursPerDay * DaysPerMonth * duration
    ELSE now + MinutesPerHour * duration

ReplyDetail(op, status, detail) ==
    response' = [op |-> op, status |-> status, detail |-> detail]

create_share_link(current_user, technician_id, duration, duration_unit, ip_whitelist) ==
    /\ UNCHANGED <<sessions, technicians, prospects, appointments, absences, pending, users, identity>>
    /\ IF duration_unit \notin allowed_units \/ duration <= 0
       THEN /\ ReplyDetail("create_share_link", 422, "validation")
            /\ UNCHANGED <<share_links, nextId>>
       ELSE IF technician_id \notin technicians
       THEN /\ ReplyDetail("create_share_link", 404, "technician")
            /\ UNCHANGED <<share_links, nextId>>
       ELSE /\ nextId <= MaxLinks
            /\ share_links' = share_links \cup
                   {[_id |-> nextId, token |-> nextId, technician_id |-> technician_id,
                     expires_at |-> calculate_expiry(duration, duration_unit),
                     created_at |-> now, created_by |-> current_user,
                     is_active |-> TRUE, access_count |-> 0,
                     last_accessed_at |-> NoDate, ip_whitelist |-> ip_whitelist,
                     revoked_by |-> NoUser, revoked_at |-> NoDate,
                     revocation_reason |-> Absent]}
            /\ nextId' = nextId + 1
            /\ ReplyDetail("create_share_link", 201, "created")

revoke_share_link_keeping_active(id, reason, current_user) ==
    /\ UNCHANGED <<sessions, technicians, prospects, appointments, absences, nextId, pending, users, identity>>
    /\ IF \A l \in share_links : l._id # id
       THEN ReplyDetail("revoke_share_link", 404, "link") /\ UNCHANGED share_links
       ELSE /\ share_links' =
                   {IF l._id = id
                    THEN [l EXCEPT !.revoked_by = current_user,
                                   !.revoked_at = now, !.revocation_reason = reason]
                    ELSE l : l \in share_links}
            /\ ReplyDetail("revoke_share_link", 200, "revoked")

revoke_share_link(id, reason, current_user) ==
    /\ UNCHANGED <<sessions, technicians, prospects, appointments, absences, nextId, pending, users, identity>>
    /\ IF \A l \in share_links : l._id # id
       THEN ReplyDetail("revoke_share_link", 404, "link") /\ UNCHANGED share_links
       ELSE /\ share_links' =
                   {IF l._id = id
                    THEN [l EXCEPT !.is_active = FALSE, !.revoked_by = current_user,
                                   !.revoked_at = now, !.revocation_reason = reason]
                    ELSE l : l \in share_links}
            /\ ReplyDetail("revoke_share_link", 200, "revoked")

find_share_link_ignoring_expiry(token) ==
    {l \in share_links : l.token = token /\ l.is_active}

\* get_shared_calendar: find_one({token, is_active: True, expires_at: {$gt: now}})
find_share_link(token) ==
    {l \in share_links : l.token = token /\ l.is_active /\ l.expires_at > now}

ip_allowed_any(share_link, client_ip) == TRUE

\* get_shared_calendar: the allow-list test, an empty list being falsy
ip_allowed(share_link, client_ip) ==
    ~(share_link.ip_whitelist # {} /\ client_ip \notin share_link.ip_whitelist)

\* The answer get_shared_calendar gives before it touches the link
shared_calendar_precheck(token, client_ip) ==
    LET found == find_share_link(token)
    IN  IF found = {}
        THEN [status |-> 404, detail |-> "Lien de partage invalide, expire ou revoque"]
        ELSE IF ~ip_allowed(CHOOSE l \in found : TRUE, client_ip)
        THEN [status |-> 403, detail |-> "Acces non autorise depuis cette adresse IP"]
        ELSE [status |-> 200, detail |-> "calendar"]

\* update_one({_id}, {$inc: {access_count: 1}, $set: {last_accessed_at: now}})
increment_access(id, accessed_at) ==
    {IF l._id = id
     THEN [l EXCEPT !.access_count = @ + 1, !.last_accessed_at = accessed_at]
     ELSE l : l \in share_links}

get_shared_calendar(token, client_ip) ==
    LET answer == shared_calendar_precheck(token, client_ip)
    IN  /\ UNCHANGED <<sessions, technicians, prospects, appointments, absences, nextId, pending, users, identity>>
        /\ IF answer.status # 200
           THEN /\ ReplyDetail("get_shared_calendar", answer.status, answer.detail)
                /\ UNCHANGED share_links
           ELSE LET share_link == CHOOSE l \in find_share_link(token) : TRUE
                IN  /\ share_link.access_count < MaxAccess
                    /\ share_links' = increment_access(share_link._id, now)
                    /\ IF share_link.technician_id \in technicians
                       THEN ReplyDetail("get_shared_calendar", 200, answer.detail)
                       ELSE ReplyDetail("get_shared_calendar", 404, "Technicien non trouve")

\* What get_shared_calendar observes of db.technicians once the record its
\* link points at has been removed
technician_removed(technician_id) ==
    /\ technician_id \in technicians
    /\ technicians' = technicians \ {technician_id}
    /\ UNCHANGED <<sessions, prospects, share_links, appointments, absences, nextId, pending, users,
                   identity, response>>

\* get_shared_calendar as two steps: the lookup and the allow-list test, then
\* the update_one, with other requests free to run at the await between them
consume_check(r, token, client_ip) ==
    LET answer == shared_calendar_precheck(token, client_ip)
    IN  /\ pending[r].pc = "idle"
        /\ UNCHANGED <<sessions, technicians, prospects, share_links, appointments, absences, nextId, users, identity>>
        /\ IF answer.status # 200
           THEN /\ ReplyDetail("get_shared_calendar", answer.status, answer.detail)
                /\ UNCHANGED pending
           ELSE /\ pending' = [pending EXCEPT ![r] =
                                  [pc |-> "increment", now |-> now,
                                   share_link |-> CHOOSE l \in find_share_link(token) : TRUE]]
                /\ UNCHANGED response

\* The update as a write of the count read at the lookup, plus one
consume_increment_read_then_write(r) ==
    /\ pending[r].pc = "increment"
    /\ \A l \in share_links : l._id = pending[r].share_link._id => l.access_count < MaxAccess
    /\ UNCHANGED <<sessions, technicians, prospects, appointments, absences, nextId, users, identity>>
    /\ share_links' =
           {IF l._id = pending[r].share_link._id
            THEN [l EXCEPT !.access_count = pending[r].share_link.access_count + 1,
                           !.last_accessed_at = pending[r].now]
            ELSE l : l \in share_links}
    /\ pending' = [pending EXCEPT ![r] = NoPending]
    /\ ReplyDetail("get_shared_calendar", 200, "calendar")

consume_increment(r) ==
    /\ pending[r].pc = "increment"
    /\ \A l \in share_links : l._id = pending[r].share_link._id => l.access_count < MaxAccess
    /\ UNCHANGED <<sessions, technicians, prospects, appointments, absences, nextId, users, identity>>
    /\ share_links' = increment_access(pending[r].share_link._id, pending[r].now)
    /\ pending' = [pending EXCEPT ![r] = NoPending]
    /\ ReplyDetail("get_shared_calendar", 200, "calendar")

\* The hours at which requests arrive, counted from the start
ShareHours == {0, 23, 24, 25}

\* Time passes between requests, to a later hour of ShareHours
Elapse(hour) ==
    /\ now < MinutesPerHour * hour
    /\ now' = MinutesPerHour * hour
    /\ UNCHANGED <<sessions, technicians, prospects, share_links, appointments, absences, nextId, pending, users,
                   companies, tokens, revoked_tokens, response>>

----------------------------------------------------------------------------
(* ConnectionManager and websocket_endpoint (main.py).  The dictionaries of   *)
(* the manager are keyed by client_id; a key that is not in a dictionary maps *)
(* to NoSocket here.  A socket and the heartbeat task made for it carry the   *)
(* same number.                                                               *)

ClientIds == {"x", "y"}
SocketIds == 1..MaxSockets
NoSocket == 0

InitialManager ==
    [active_connections |-> [c \in ClientIds |-> NoSocket],
     heartbeat_tasks |-> [c \in ClientIds |-> NoSocket],
     last_activity |-> {},
     reconnect_attempts |-> {}]

\* ConnectionManager.disconnect(client_id): the manager, the sockets and the
\* tasks it leaves behind
disconnect(client_id) ==
    IF manager.active_connections[client_id] = NoSocket
    THEN [manager |-> manager, websockets |-> websockets, tasks |-> tasks]
    ELSE [manager |-> [active_connections |->
                           [manager.active_connections EXCEPT ![client_id] = NoSocket],
                       heartbeat_tasks |->
                           [manager.heartbeat_tasks EXCEPT ![client_id] = NoSocket],
                       last_activity |-> manager.last_activity \ {client_id},
                       reconnect_attempts |-> manager.reconnect_attempts \ {client_id}],
          websockets |->
              [websockets EXCEPT ![manager.active_connections[client_id]].state = "closed"],
          tasks |->
              IF manager.heartbeat_tasks[client_id] # NoSocket
              THEN [tasks EXCEPT ![manager.heartbeat_tasks[client_id]] = "cancelled"]
              ELSE tasks]

\* websocket_endpoint up to the end of manager.connect: the socket is accepted,
\* registered under client_id over whatever was there, and its heartbeat started
connect(client_id, websocket) ==
    /\ websockets[websocket].state = "idle"
    /\ \A s \in SocketIds : s < websocket => websockets[s].state # "idle"
    /\ websockets' = [websockets EXCEPT ![websocket] =
                          [client_id |-> client_id, state |-> "open", ended |-> FALSE]]
    /\ manager' = [active_connections |->
                       [manager.active_connections EXCEPT ![client_id] = websocket],
                   heartbeat_tasks |->
                       [manager.heartbeat_tasks EXCEPT ![client_id] = websocket],
                   last_activity |-> manager.last_activity \cup {client_id},
                   reconnect_attempts |-> manager.reconnect_attempts \cup {client_id}]
    /\ tasks' = [tasks EXCEPT ![websocket] = "running"]
    /\ UNCHANGED <<technicians, prospects, share_links, appointments, absences, nextId,
                   pending, users, identity, response>>

\* The end of a session of websocket_endpoint: receive_json raises, because the
\* peer left or because the socket was closed, and the finally block calls
\* manager.disconnect(client_id)
websocket_endpoint_finally(websocket) ==
    /\ websockets[websocket].state # "idle"
    /\ ~websockets[websocket].ended
    /\ LET after == disconnect(websockets[websocket].client_id)
       IN  /\ manager' = after.manager
           /\ websockets' = [after.websockets EXCEPT ![websocket].state = "closed",
                                                     ![websocket].ended = TRUE]
           /\ tasks' = after.tasks
    /\ UNCHANGED <<technicians, prospects, share_links, appointments, absences, nextId,
                   pending, users, identity, response>>

\* One turn of the loop of ConnectionManager.heartbeat in the task made for a
\* socket: the loop ends when client_id is registered no more; the ping goes to
\* active_connections[client_id], and a send that raises ends in disconnect
heartbeat(task) ==
    /\ tasks[task] = "running"
    /\ LET client_id == websockets[task].client_id
           target == manager.active_connections[client_id]
       IN  IF target = NoSocket
           THEN /\ tasks' = [tasks EXCEPT ![task] = "done"]
                /\ UNCHANGED <<manager, websockets>>
           ELSE IF websockets[target].state # "open"
           THEN LET after == disconnect(client_id)
                IN  /\ manager' = after.manager
                    /\ websockets' = after.websockets
                    /\ tasks' = [after.tasks EXCEPT ![task] = "done"]
           ELSE UNCHANGED <<manager, websockets, tasks>>
    /\ UNCHANGED <<technicians, prospects, share_links, appointments, absences, nextId,
                   pending, users, identity, response>>

----------------------------------------------------------------------------
(* Specifications *)

NoResponse == [op |-> "none", status |-> 0]

Init ==
    /\ appointments = {}
    /\ absences = {}
    /\ nextId = 1
    /\ pending = [r \in Requests |-> NoPending]
    /\ users = InitialUsers
    /\ companies = InitialCompanies
    /\ tokens = {}
    /\ revoked_tokens = {}
    /\ now = 0
    /\ response = NoResponse
    /\ prospects = {}
    /\ share_links = {}
    /\ technicians = InitialTechnicians
    /\ manager = InitialManager
    /\ websockets = [s \in SocketIds |->
                        [client_id |-> Absent, state |-> "idle", ended |-> FALSE]]
    /\ tasks = [s \in SocketIds |-> "none"]

AppointmentIds == 1..MaxAppointments

TechnicianInputs == {"t1", "t2", "t3", UnknownUser}

\* A request body of update_appointment, by the keys it carries
Body(technician_id, dateTime) ==
    [technician_id |-> technician_id, dateTime |-> dateTime,
     status |-> Absent, company_id |-> Absent]

Bodies ==
    {Body(t, d) : t \in {"t1", "t2", Absent}, d \in Times \cup {NoDate}}
        \cup {Body("t3", NoDate)}

\* The body that re-sends the stored dateTime of appointment a
SelfBody(a, technician_id) == Body(technician_id, a.dateTime)

AbsenceIntervals == {<<15, 30>>, <<60, 60>>}

\* SpecAppt: the owner of tenant c1 books, edits and deletes appointments of
\* two technicians, one handler at a time
CreateInputs ==
    {<<"p1", t, d>> : t \in {"t1", "t2"}, d \in Times}
        \cup {<<"p1", "t1", BadDate>>, <<"p1", "t3", 0>>, <<"p1", UnknownUser, 0>>,
               <<UnknownProspect, "t1", 0>>}

NextAppt ==
    \/ \E x \in CreateInputs :
            create_appointment(OwnerIdentity("c1"), x[1], x[2], x[3])
    \/ \E i \in AppointmentIds, b \in Bodies :
            update_appointment(OwnerIdentity("c1"), i, b)
    \/ \E i \in AppointmentIds : delete_appointment(OwnerIdentity("c1"), i)

SpecAppt == Init /\ [][NextAppt]_vars

\* SpecAbsence: absences of technician t1 against the bookings and edits of
\* their appointments
NextAbsence ==
    \/ \E d \in Times : create_appointment(OwnerIdentity("c1"), "p1", "t1", d)
    \/ \E i \in AppointmentIds, t \in {"t1", Absent}, d \in Times \cup {NoDate} :
            update_appointment(OwnerIdentity("c1"), i, Body(t, d))
    \/ \E t \in {"t1", "t3"}, x \in AbsenceIntervals :
            create_absence(OwnerIdentity("c1"), t, x[1], x[2])

SpecAbsence == Init /\ [][NextAbsence]_vars

\* SpecNotFound: the owners of both tenants name prospects, technicians and
\* appointments that are unknown or that belong to the other tenant
NextNotFound ==
    \/ \E u \in Callers, p \in ProspectIds \cup {UnknownProspect},
          t \in {"t1", "t3", UnknownUser} :
            create_appointment(u, p, t, 0)
    \/ \E u \in Callers, i \in AppointmentIds, t \in {"t1", "t3", Absent} :
            update_appointment(u, i, Body(t, 0))
    \/ \E u \in Callers, i \in AppointmentIds : delete_appointment(u, i)
    \/ \E u \in Callers, i \in AppointmentIds : get_appointment(u, i)
    \/ \E u \in Callers, i \in AppointmentIds, st \in AppointmentStatus :
            update_appointment_status(u, i, st)
    \/ \E u \in Callers : create_absence(u, "t3", 0, 0)

SpecNotFound == Init /\ [][NextNotFound]_vars

\* SpecStatus: the owner of tenant c1 books appointments and changes their
\* status, through the status route and through the body of update_appointment
StatusBodies ==
    {[Body(Absent, NoDate) EXCEPT !.status = s] : s \in {"completed", "bogus"}}

NextStatus ==
    \/ \E t \in {"t1", "t2"}, d \in Times :
            create_appointment(OwnerIdentity("c1"), "p1", t, d)
    \/ \E i \in AppointmentIds, b \in StatusBodies :
            update_appointment(OwnerIdentity("c1"), i, b)
    \/ \E i \in AppointmentIds, st \in AppointmentStatus :
            update_appointment_status(OwnerIdentity("c1"), i, st)

SpecStatus == Init /\ [][NextStatus]_vars

\* SpecDirectory: companies are registered, edited and locked, and the owner
\* of tenant c1 registers technicians and call centers
DirectoryEmails == {"e1", "c1", "t1"}

NextDirectory ==
    \/ \E sr \in {"c1", "s3"}, e \in DirectoryEmails, d \in Delivery :
            create_company(sr, e, d)
    \/ \E c \in {"c1", "c3", UnknownCompany}, sr \in {"c1", "c2"},
          e \in {"c1", "c2", "t1", "e2"}, b \in BOOLEAN :
            update_company(c, sr, e, b)
    \/ \E e \in DirectoryEmails, d \in Delivery :
            create_technician(OwnerIdentity("c1"), e, d)
    \/ \E e \in DirectoryEmails, d \in Delivery :
            create_call_center(OwnerIdentity("c1"), e, d)
    \/ \E c \in {"c1"} : toggle_company_lock(c)
    \/ \E t \in {"t1"} : toggle_technician_status(OwnerIdentity("c1"), t)

SpecDirectory == Init /\ [][NextDirectory]_vars

\* SpecLock: tenant c1 is locked and unlocked while time passes, tenant c2 is
\* locked, and the owner of c1 toggles a technician
NextLock ==
    \/ \E c \in {"c1", UnknownCompany} : toggle_company_lock(c)
    \/ cascade_deactivate_admin("a1")
    \/ \E t \in {"t1", "t2", "t3"} : toggle_technician_status(OwnerIdentity("c1"), t)
    \/ \E t \in {"t3"} : toggle_technician_status(OwnerIdentity("c2"), t)
    \/ Tick

SpecLock == Init /\ [][NextLock]_vars

\* SpecSockets: WebSocket sessions of two client ids open and end, their
\* heartbeat tasks running in between
NextSockets ==
    \/ \E c \in ClientIds, s \in SocketIds : connect(c, s)
    \/ \E s \in SocketIds : websocket_endpoint_finally(s)
    \/ \E t \in SocketIds : heartbeat(t)

SpecSockets == Init /\ [][NextSockets]_vars

\* SpecRace: two create_appointment requests of tenant c1 interleaved at the await
NextRace ==
    \/ \E r \in Requests, t \in {"t1", "t2"}, d \in Times :
            create_check(r, OwnerIdentity("c1"), "p1", t, d)
    \/ \E r \in Requests : create_insert(r)
    \/ \E i \in AppointmentIds : delete_appointment(OwnerIdentity("c1"), i)

SpecRace == Init /\ [][NextRace]_vars

\* SpecSelfUpdate: every update re-sends the stored dateTime of the appointment,
\* with its own technician or none
self_update(current_user, appointment_id, with_technician) ==
    \E a \in find_appointment(appointment_id, current_user.company_id) :
        update_appointment(current_user, appointment_id,
            SelfBody(a, IF with_technician THEN a.technician_id ELSE Absent))

NextSelfUpdate ==
    \/ \E t \in {"t1", "t2"}, d \in Times :
            create_appointment(OwnerIdentity("c1"), "p1", t, d)
    \/ \E i \in AppointmentIds, w \in BOOLEAN :
            self_update(OwnerIdentity("c1"), i, w)
    \/ \E x \in AbsenceIntervals :
            create_absence(OwnerIdentity("c1"), "t1", x[1], x[2])

SpecSelfUpdate == Init /\ [][NextSelfUpdate]_vars

\* SpecAuth: logins, guarded requests and deactivations of tenant c1 over time
NextAuth ==
    \/ \E e \in {"c1", "t1", "x1"}, ok \in BOOLEAN : login(e, ok)
    \/ \E tok \in tokens \cup {ForgedToken} : read_users_me(tok)
    \/ \E tok \in tokens \cup {ForgedToken} : get_appointments(tok)
    \/ \E tok \in tokens \cup {ForgedToken} : verify_token(tok)
    \/ \E tok \in tokens \cup {ForgedToken} : refresh_access_token(tok)
    \/ \E c \in {"c1", UnknownCompany} : toggle_company_lock(c)
    \/ \E a \in {"a1", "t1"} : cascade_deactivate_admin(a)
    \/ \E t \in {"t1", "t3"} : toggle_technician_status(OwnerIdentity("c1"), t)
    \/ Tick

SpecAuth == Init /\ [][NextAuth]_vars

\* SpecUsers: UserService called by actors of every role on users of both tenants
NextUsers ==
    \/ \E c \in DOMAIN InitialUsers \cup {UnknownUser}, r \in UserRole,
          e \in {"n1", "g1"} : create_user(c, r, e)
    \/ \E a \in DOMAIN InitialUsers \cup {UnknownUser}, u \in DOMAIN InitialUsers,
          f \in BOOLEAN : update_user(a, u, f)
    \/ \E a \in DOMAIN InitialUsers, u \in DOMAIN InitialUsers : delete_user(a, u)

SpecUsers == Init /\ [][NextUsers]_vars

\* The call-center module's prospect handlers, called by admins and call
\* centers of both tenants
ProspectIdInputs == (1..MaxProspects) \cup {BadId}
NextCallCenterProspect ==
    \/ \E u \in ProspectCallers : call_center_create_prospect(u, "e1", "created")
    \/ \E u \in ProspectCallers, i \in ProspectIdInputs, s \in {"completed", "bogus"} :
           call_center_update_prospect(u, i, [processing_status |-> s, company_id |-> "c2"])
    \/ \E u \in ProspectCallers, i \in ProspectIdInputs : call_center_delete_prospect(u, i)
    \/ \E u \in ProspectCallers, i \in ProspectIdInputs : call_center_get_prospect(u, i)
    \/ \E u \in ProspectCallers, k \in {"k1", "k3"} : get_prospects_by_call_center(u, k)
SpecCallCenterProspect == Init /\ [][NextCallCenterProspect]_vars

\* The mounted prospect handlers, called by every role of both tenants
NextProspect ==
    \/ \E u \in PipelineCallers : get_prospects(u)
    \/ \E u \in PipelineCallers, e \in {"e1", "e2", "e3"}, k \in {Absent, "k2"} :
           create_prospect(u, [email |-> e, call_center_id |-> k, company_id |-> Absent,
                               processing_status |-> "created"])
    \/ \E u \in PipelineCallers, i \in ProspectIdInputs : get_prospect(u, i)
SpecProspect == Init /\ [][NextProspect]_vars

\* The processing status of prospects: created and updated through both modules
\* by the admin and a call center of tenant c1
PipelineStatusInputs == {Absent, "completed", "bogus"}
NextPipeline ==
    \/ \E u \in {v \in ProspectCallers : v.id \in {"a1", "k1"}},
          e \in {"e1", "e2"}, s \in {"created", "confirmed", "bogus"} :
           create_prospect(u, [email |-> e, call_center_id |-> Absent,
                               company_id |-> Absent, processing_status |-> s])
    \/ \E u \in {v \in ProspectCallers : v.id \in {"a1", "k1"}},
          i \in ProspectIdInputs, s \in PipelineStatusInputs :
           update_prospect(u, i, [email |-> Absent, processing_status |-> s,
                                  company_id |-> Absent, call_center_id |-> Absent])
    \/ \E u \in {v \in ProspectCallers : v.id \in {"a1", "k1"}},
          i \in ProspectIdInputs, s \in PipelineStatusInputs :
           call_center_update_prospect(u, i, [processing_status |-> s, company_id |-> Absent])
SpecPipeline == Init /\ [][NextPipeline]_vars

\* SpecTenant: appointments and prospects of tenant c1 are created, then
\* updated with bodies that carry company_id or call_center_id
TenantBodies ==
    {[email |-> Absent, processing_status |-> s, company_id |-> c, call_center_id |-> k] :
        s \in {Absent, "confirmed"}, c \in {Absent, "c1", "c2"}, k \in {Absent, "k2"}}

NextTenant ==
    \/ \E t \in {"t1", "t2"}, d \in {0, 60} :
            create_appointment(OwnerIdentity("c1"), "p1", t, d)
    \/ \E i \in AppointmentIds, c \in {Absent, "c2"} :
            update_appointment(OwnerIdentity("c1"), i,
                               [Body(Absent, NoDate) EXCEPT !.company_id = c])
    \/ \E u \in {v \in ProspectCallers : v.id \in {"a1", "k1"}}, e \in {"e1", "e2"} :
            create_prospect(u, [email |-> e, call_center_id |-> Absent,
                                company_id |-> Absent, processing_status |-> "created"])
    \/ \E u \in {v \in ProspectCallers : v.id \in {"a1", "k1"}},
          i \in ProspectIdInputs, b \in TenantBodies :
            update_prospect(u, i, b)
    \/ \E u \in {v \in ProspectCallers : v.id \in {"a1", "k1"}},
          i \in ProspectIdInputs, c \in {Absent, "c2"} :
            call_center_update_prospect(u, i, [processing_status |-> "completed",
                                               company_id |-> c])

SpecTenant == Init /\ [][NextTenant]_vars


\* Share links of technician t1: issued, revoked and consumed as hours pass
NextShare ==
    \/ \E d \in {<<24, "hours">>, <<0, "hours">>}, t \in {"t1", UnknownUser} :
           create_share_link("a1", t, d[1], d[2], {})
    \/ \E i \in 1..MaxLinks : revoke_share_link(i, "leaked", "g1")
    \/ \E k \in (1..MaxLinks) \cup {NoToken} : get_shared_calendar(k, "ip1")
    \/ \E h \in ShareHours : Elapse(h)
SpecShare == Init /\ [][NextShare]_vars

\* Share links with and without an allow-list, consumed from two addresses
ClientIps == {"ip1", "ip2"}
NextShareIp ==
    \/ \E w \in {{}, {"ip1"}, {"ip1", "ip3"}} : create_share_link("a1", "t1", 24, "hours", w)
    \/ \E k \in 1..MaxLinks, ip \in ClientIps : get_shared_calendar(k, ip)
    \/ \E h \in ShareHours : Elapse(h)
SpecShareIp == Init /\ [][NextShareIp]_vars

\* Share links of every duration unit, issued at every hour
ShareDurations ==
    {<<24, "hours">>, <<2, "days">>, <<1, "months">>, <<2, "months">>,
     <<0, "hours">>, <<1, "weeks">>}
NextShareCreate ==
    \/ \E d \in ShareDurations, t \in {"t1", UnknownUser}, w \in {{}, {"ip1"}} :
           create_share_link("a1", t, d[1], d[2], w)
    \/ \E h \in ShareHours : Elapse(h)
SpecShareCreate == Init /\ [][NextShareCreate]_vars

\* Share links of technicians whose record is removed after the link was issued
NextShareGone ==
    \/ \E t \in {"t1", "t3"}, w \in {{}, {"ip1"}} :
           create_share_link("a1", t, 24, "hours", w)
    \/ \E k \in (1..MaxLinks) \cup {NoToken}, ip \in ClientIps : get_shared_calendar(k, ip)
    \/ \E t \in {"t1", "t3"} : technician_removed(t)
    \/ \E i \in 1..MaxLinks : revoke_share_link(i, "leaked", "g1")
    \/ \E h \in ShareHours : Elapse(h)
SpecShareGone == Init /\ [][NextShareGone]_vars

\* Two consumers of the links of technician t1, their requests interleaved
NextShareRace ==
    \/ create_share_link("a1", "t1", 24, "hours", {})
    \/ \E r \in Requests, k \in (1..MaxLinks) \cup {NoToken} : consume_check(r, k, "ip1")
    \/ \E r \in Requests : consume_increment(r)
    \/ Elapse(23)
SpecShareRace == Init /\ [][NextShareRace]_vars

----------------------------------------------------------------------------
(* Properties of the appointment handlers *)

\* The stored appointments of one technician in one tenant
Calendar(technician_id, company_id) ==
    {a \in appointments : a.technician_id = technician_id /\ a.company_id = company_id}

\* A request that passes the prospect, technician and date steps of create_appointment
ValidCreate(current_user, prospect_id, technician_id, dateTime) ==
    /\ find_prospect(prospect_id, current_user.company_id)
    /\ find_user(technician_id, current_user.company_id)
    /\ dateTime # BadDate

\* An absence of the technician whose interval meets the window of instant t
AbsenceMeetsWindow(technician_id, t) ==
    \E b \in absences :
        /\ b.technician_id = technician_id
        /\ b.start_date <= b.end_date
        /\ b.start_date <= t + WindowAfter
        /\ b.end_date >= t - WindowBefore

\* C1: where technician T has an appointment at t in tenant C and no absence is
\* involved, a create_appointment for T in C at t' with t-15 <= t' <= t+45 is
\* rejected as a conflict, and one at a t' outside that range of every
\* appointment of T (t+60 for example) succeeds.
C1_WindowAroundExisting ==
    [][\A u \in Callers, t \in {"t1", "t2"}, d \in Times :
          ( /\ create_appointment(u, "p1", t, d)
            /\ ValidCreate(u, "p1", t, d)
            /\ absences = {}
            /\ Calendar(t, u.company_id) # {} )
          => IF \E a \in Calendar(t, u.company_id) :
                    a.dateTime - WindowBefore <= d /\ d <= a.dateTime + WindowAfter
             THEN response'.status = 409 /\ appointments' = appointments
             ELSE response'.status = 200
      ]_vars

\* C2: the handlers running one at a time, no two stored appointments of one
\* technician in one tenant have windows [dateTime-15, dateTime+45] that overlap
\* in more than an endpoint.
C2_NoOverlappingWindows ==
    \A a \in appointments : \A b \in Calendar(a.technician_id, a.company_id) :
        a.id # b.id =>
            \/ a.dateTime + WindowAfter <= b.dateTime - WindowBefore
            \/ b.dateTime + WindowAfter <= a.dateTime - WindowBefore

\* C3: nothing between the conflict check and the insert re-validates the
\* request: every create_appointment that passed its check stores its
\* appointment when it resumes, whatever was stored in between, so two requests
\* for the same technician, tenant and instant are both stored.
C3_CheckedRequestAlwaysInserts ==
    [][\A r \in Requests :
          (pending[r].pc = "checked" /\ pending'[r].pc = "idle")
          => /\ response'.status = 200
             /\ \E a \in appointments' \ appointments :
                    /\ a.technician_id = pending[r].technician_id
                    /\ a.company_id = pending[r].current_user.company_id
                    /\ a.dateTime = pending[r].dateTime
      ]_vars

C3_DoubleBooking ==
    \E a \in appointments : \E b \in Calendar(a.technician_id, a.company_id) :
        a.id # b.id /\ a.dateTime = b.dateTime

C5_NoSelfConflict ==
    \A a \in appointments : \A t \in {Absent, a.technician_id} :
        LET others == \E b \in Calendar(a.technician_id, a.company_id) :
                          /\ b.id # a.id
                          /\ b.dateTime >= a.dateTime - WindowBefore
                          /\ b.dateTime <= a.dateTime + WindowAfter
            away == AbsenceMeetsWindow(a.technician_id, a.dateTime)
        IN  update_precheck(OwnerIdentity(a.company_id), a.id, SelfBody(a, t))
                = IF others \/ away THEN 409 ELSE 200

C5_SelfUpdateAccepted ==
    /\ response = [op |-> "update_appointment", status |-> 200]
    /\ Cardinality(appointments) = MaxAppointments

\* C6: create_appointment and update_appointment answer 409, not 404 or 500,
\* whenever their references resolve and the conflict check reports a conflict,
\* and a 409 leaves every collection as it was: nothing is stored, changed or
\* booked at another instant.
C6_ConflictIs409AndStoresNothing ==
    /\ [](\A u \in Callers, t \in TechnicianInputs, d \in Times :
             ( /\ ValidCreate(u, "p1", t, d)
               /\ check_appointment_conflict(t, d, u.company_id, NoId) )
             => create_precheck(u, "p1", t, d) = 409)
    /\ [](\A a \in appointments, b \in Bodies :
             ( /\ b.dateTime # NoDate \/ b.technician_id # Absent
               /\ b.technician_id # Absent => find_user(b.technician_id, a.company_id)
               /\ check_appointment_conflict(EffectiveTechnician(a, b),
                      EffectiveDate(a, b), a.company_id, a.id) )
             => update_precheck(OwnerIdentity(a.company_id), a.id, b) = 409)
    /\ [][response'.status = 409 =>
              /\ response'.op \in {"create_appointment", "update_appointment"}
              /\ UNCHANGED <<appointments, absences, nextId, users>>]_vars

C6_ConflictAnswered ==
    /\ response = [op |-> "create_appointment", status |-> 409]
    /\ absences = {}
    /\ appointments # {}

\* C7: an appointment operation naming a prospect, technician or appointment
\* that is absent from the caller's tenant, unknown or foreign alike, answers
\* 404 and changes nothing.
C7_AbsentEntityIs404 ==
    [][/\ \A u \in Callers, p \in ProspectIds \cup {UnknownProspect},
             t \in {"t1", "t3", UnknownUser} :
             ( /\ create_appointment(u, p, t, 0)
               /\ ~find_prospect(p, u.company_id) \/ ~find_user(t, u.company_id) )
             => response'.status = 404 /\ appointments' = appointments
       /\ \A u \in Callers, i \in AppointmentIds :
             find_appointment(i, u.company_id) = {}
             => /\ get_appointment(u, i) => response'.status = 404
                /\ delete_appointment(u, i)
                       => response'.status = 404 /\ appointments' = appointments
                /\ \A st \in AppointmentStatus : update_appointment_status(u, i, st)
                       => response'.status = 404 /\ appointments' = appointments
                /\ \A t \in {"t1", "t3", Absent} : update_appointment(u, i, Body(t, 0))
                       => response'.status = 404 /\ appointments' = appointments
      ]_vars

----------------------------------------------------------------------------
(* Properties of the identity and token service *)

\* The tenant a token's subject belongs to
TenantOf(email) ==
    IF email \in DOMAIN users THEN users[email].company_id
    ELSE IF email \in DOMAIN companies THEN email
    ELSE NoCompany

\* The active flag of the identity a token's subject resolves to
ResolvedInactive(email) ==
    \/ email \in DOMAIN users /\ ~users[email].is_active
    \/ email \notin DOMAIN users /\ email \in DOMAIN companies
           /\ ~companies[email].is_active

\* C8: once an organization is deactivated, a request to a guarded endpoint
\* with an unexpired token issued before the organization's
\* token_invalidation_timestamp is answered 401.
C8_TokenBeforeRevocationRejected ==
    [][\A tok \in tokens :
          LET c == TenantOf(tok.sub)
          IN  ( /\ read_users_me(tok) \/ get_appointments(tok)
                /\ decode(tok)
                /\ c \in DOMAIN companies
                /\ ~companies[c].is_active
                /\ tok.issued_at < companies[c].token_invalidation_timestamp )
              => response'.status = 401
      ]_vars

\* C9: a deactivation, by toggle_company_lock on an active organization or by
\* cascade_deactivate_admin, leaves the organization inactive and stamped with
\* the current instant, every user of the tenant inactive, and a revocation
\* entry of that instant registered for the tenant.
C9_DeactivationCascade ==
    [][\A c \in DOMAIN companies :
          ( \/ toggle_company_lock(c) /\ companies[c].is_active
            \/ \E a \in DOMAIN users :
                  /\ users[a].role = "admin" /\ users[a].company_id = c
                  /\ cascade_deactivate_admin(a) )
          => /\ ~companies'[c].is_active
             /\ companies'[c].token_invalidation_timestamp = now
             /\ \A u \in DOMAIN users : users[u].company_id = c => ~users'[u].is_active
             /\ \E e \in revoked_tokens' :
                    e.company_id = c /\ e.revocation_timestamp = now
      ]_vars

\* C10: a request or a token verification presenting a token whose subject
\* resolves to an inactive user or organization is answered 401.
C10_InactiveIdentityRejected ==
    [][\A tok \in tokens :
          ( /\ read_users_me(tok) \/ get_appointments(tok) \/ verify_token(tok)
            /\ ResolvedInactive(tok.sub) )
          => response'.status = 401
      ]_vars

\* C11: refresh_access_token, presented with an unexpired token issued before
\* its tenant's token_invalidation_timestamp, answers 401 and issues no token.
C11_RefreshRefusesRevoked ==
    [][\A tok \in tokens :
          LET c == TenantOf(tok.sub)
          IN  ( /\ refresh_access_token(tok)
                /\ decode(tok)
                /\ c \in DOMAIN companies
                /\ tok.issued_at < companies[c].token_invalidation_timestamp )
              => response'.status = 401 /\ tokens' = tokens
      ]_vars

----------------------------------------------------------------------------
(* Properties of UserService *)

\* The creation table of the specification, on the roles create_user accepts
\* (technician being the role the code names work)
AllowedCreates ==
    [super_admin |-> {"admin"}, admin |-> {"agent", "call_center", "work"},
     agent |-> {"work"}, work |-> {}]

\* C12: create_user by a creator of role R stores a user of role R' when R' is
\* in R's allowed set, and stores nothing and refuses otherwise.
C12_CreationTable ==
    [][\A c \in DOMAIN users, r \in UserRole :
          ( /\ create_user(c, r, "n1")
            /\ users[c].role \in DOMAIN AllowedCreates )
          => IF r \in AllowedCreates[users[c].role]
             THEN /\ response'.status = 200
                  /\ \E n \in DOMAIN users' \ DOMAIN users : users'[n].role = r
             ELSE response'.status # 200 /\ users' = users
      ]_vars

\* C13: update_user and delete_user change the target only when the actor's
\* rank is strictly higher than the target's and, unless the actor is
\* super_admin, the target belongs to the actor's tenant.
C13_RankAndTenant ==
    [][\A a \in DOMAIN users, u \in DOMAIN users :
          ( /\ response'.op \in {"update_user", "delete_user"}
            /\ delete_user(a, u) \/ \E f \in BOOLEAN : update_user(a, u, f)
            /\ users' # users )
          => /\ role_hierarchy[users[a].role] > role_hierarchy[users[u].role]
             /\ users[a].role = "super_admin"
                    \/ users[a].company_id = users[u].company_id
      ]_vars

----------------------------------------------------------------------------
(* Properties of the prospect handlers *)

\* C14: a caller of one tenant never reads, updates or deletes a record of
\* another tenant: whatever the handler and the role, every prospect whose
\* company_id is not the caller's is left as it was and is not among the
\* documents the response returns.
C14_TenantIsolation ==
    [][response'.op \in {"call_center_create_prospect", "call_center_update_prospect",
                         "call_center_delete_prospect", "call_center_get_prospect",
                         "get_prospects_by_call_center"}
       => \A p \in prospects :
             p.company_id # response'.caller.company_id
             => /\ p \in prospects'
                /\ p._id \notin response'.data]_vars

----------------------------------------------------------------------------
(* Properties of the share links *)

\* What a caller is told when a link cannot be consumed
Rejection(token) == shared_calendar_precheck(token, "ip1")

\* C15: get_shared_calendar rejects a token that matches no link, a link with
\* is_active = false and a link past its expires_at, with one and the same
\* error in the three cases and without touching the link; a link of 24 hours
\* is accepted 23 hours after its creation and rejected 25 hours after it.
C15_ConsumeRejection ==
    /\ [](\A k \in (1..MaxLinks) \cup {NoToken} :
             ( \/ \A l \in share_links : l.token # k
               \/ \E l \in share_links :
                     l.token = k /\ (~l.is_active \/ now > l.expires_at) )
             => /\ Rejection(k).status = 404
                /\ Rejection(k) = Rejection(NoToken))
    /\ [](\A l \in share_links :
             (l.is_active /\ l.expires_at = l.created_at + 24 * 60)
             => /\ now = l.created_at + 23 * 60 => Rejection(l.token).status = 200
                /\ now = l.created_at + 25 * 60 => Rejection(l.token).status = 404)
    /\ [][response'.op = "get_shared_calendar" /\ response'.status # 200
          => UNCHANGED share_links]_vars

C15_AcceptedThenExpired ==
    /\ response.op = "get_shared_calendar" /\ response.status = 404
    /\ \E l \in share_links :
          /\ l.is_active
          /\ l.expires_at = l.created_at + 24 * 60
          /\ l.access_count >= 1
          /\ l.last_accessed_at = l.created_at + 23 * 60
          /\ now = l.created_at + 25 * 60

\* C16: a revoke_share_link that succeeds leaves its link with is_active =
\* false and the revoking actor, the time and the reason recorded; from then on
\* a consume with the link's token gets the error an expired link gets, and no
\* operation makes the link active again.
C16_RevokedStaysRejected ==
    /\ [][response'.op = "revoke_share_link" /\ response'.status = 200 /\ now' = now
          => \E l \in share_links :
                share_links' = (share_links \ {l}) \cup
                    {[l EXCEPT !.is_active = FALSE, !.revoked_by = "g1",
                               !.revoked_at = now, !.revocation_reason = "leaked"]}]_vars
    /\ [](\A l \in share_links :
             ~l.is_active
             => /\ l.revoked_by # NoUser /\ l.revoked_at # NoDate
                /\ Rejection(l.token).status = 404
                /\ Rejection(l.token) = Rejection(NoToken))
    /\ [][\A l \in share_links :
             ~l.is_active => \E m \in share_links' : m._id = l._id /\ ~m.is_active]_vars

C16_RevokedLinkRefused ==
    /\ response.op = "get_shared_calendar" /\ response.status = 404
    /\ \E l \in share_links :
          /\ ~l.is_active /\ l.revoked_by = "g1"
          /\ l.access_count >= 1
          /\ now < l.expires_at

C18_AllowList ==
    /\ [](\A l \in share_links, ip \in ClientIps :
             (l.is_active /\ l.expires_at > now)
             => /\ (l.ip_whitelist # {} /\ ip \notin l.ip_whitelist)
                   => shared_calendar_precheck(l.token, ip).status = 403
                /\ l.ip_whitelist = {}
                   => shared_calendar_precheck(l.token, ip).status = 200)
    /\ [][response'.op = "get_shared_calendar" /\ response'.status = 403
          => UNCHANGED share_links]_vars

C18_ForbiddenAddress ==
    /\ response.op = "get_shared_calendar" /\ response.status = 403
    /\ \E l \in share_links : l.ip_whitelist = {"ip1"} /\ l.access_count >= 1

\* Minutes in one unit of duration
UnitMinutes == [hours |-> 60, days |-> 24 * 60, months |-> 30 * 24 * 60]

\* C19: create_share_link stores exactly one new link, with access_count = 0,
\* is_active = true, a token no other link holds, and expires_at = the time of
\* creation + the duration counted in hours, days or months of 30 days.
C19_StoredLink ==
    /\ [](\A d \in ShareDurations :
             d[2] \in DOMAIN UnitMinutes
             => calculate_expiry(d[1], d[2]) = now + d[1] * UnitMinutes[d[2]])
    /\ [][response'.op = "create_share_link" /\ response'.status = 201 /\ now' = now
          => \E l \in share_links' :
                /\ l \notin share_links /\ share_links' = share_links \cup {l}
                /\ l.access_count = 0 /\ l.is_active
                /\ \A m \in share_links : m.token # l.token
                /\ l.created_at = now
                /\ \E d \in ShareDurations :
                      /\ d[2] \in DOMAIN UnitMinutes /\ d[1] > 0
                      /\ l.expires_at = now + d[1] * UnitMinutes[d[2]]]_vars

C19_MonthLinkStored ==
    /\ response.op = "create_share_link" /\ response.status = 201
    /\ \E l \in share_links :
          /\ l.created_at = now /\ now > 0
          /\ l.expires_at = now + 2 * 30 * 24 * 60
          /\ l.access_count = 0 /\ l.is_active

----------------------------------------------------------------------------
(* Properties of the status fields *)

\* C21: whatever prospects are created and updated, the processing_status of
\* every stored prospect is one of created, confirmed, new_plan, completed,
\* cancelled: a request carrying another value stores nothing.
C21_ProcessingStatusIsValid ==
    \A p \in prospects :
       p.processing_status \in {"created", "confirmed", "new_plan", "completed", "cancelled"}

\* C22: after any create_appointment, update_appointment and
\* update_appointment_status, the status of every stored appointment is one of
\* created, confirmed, completed, cancelled, and an appointment just created
\* has status created.
C22_AppointmentStatusIsValid ==
    /\ \A a \in appointments :
          a.status \in {"created", "confirmed", "completed", "cancelled"}
    /\ (response.op = "create_appointment" /\ response.status = 200)
          => \A a \in appointments : a.id = nextId - 1 => a.status = "created"

\* C23: completed and cancelled are terminal: a step never changes the status
\* of an appointment whose status is completed or cancelled.
C23_TerminalStatus ==
    [][\A a \in appointments : a.status \in {"completed", "cancelled"}
          => \A b \in appointments' : b.id = a.id => b.status = a.status]_vars

----------------------------------------------------------------------------
(* Properties of the directory of companies and users *)

\* C24: a failure of the delivery of the credentials never fails the primary
\* operation: a step that persists a new company or a new user answers 200.
C24_DeliveryFailureIsSwallowed ==
    [][(DOMAIN users' # DOMAIN users \/ DOMAIN companies' # DOMAIN companies)
          => response'.status = 200]_vars

\* C25: no two companies share a siret or an e-mail, and no user's e-mail is
\* the e-mail of another user or of a company.
C25_UniqueSiretAndEmail ==
    /\ \A c, d \in DOMAIN companies :
          c # d => /\ companies[c].siret # companies[d].siret
                   /\ companies[c].email # companies[d].email
    /\ \A u, v \in DOMAIN users : u # v => users[u].email # users[v].email
    /\ \A u \in DOMAIN users, c \in DOMAIN companies :
          users[u].email # companies[c].email

\* C26: a company that is not active has no active user.
C26_InactiveCompanyHasNoActiveUser ==
    \A c \in DOMAIN companies :
       ~companies[c].is_active
          => \A u \in DOMAIN users : users[u].company_id = c => ~users[u].is_active

----------------------------------------------------------------------------
(* Frame properties of the updates *)

\* C27: an update never moves a record to another tenant: no step changes the
\* company_id of a stored appointment or prospect, nor the call_center_id of a
\* stored prospect, whatever the body of the request carries.
C27_UpdateKeepsTenant ==
    [][/\ \A a \in appointments : \A b \in appointments' :
             b.id = a.id => b.company_id = a.company_id
       /\ \A p \in prospects : \A q \in prospects' :
             q._id = p._id => /\ q.company_id = p.company_id
                              /\ q.call_center_id = p.call_center_id]_vars

\* C28: re-activating a company with toggle_company_lock changes only the
\* active flag of the company: its users are left as they are, inactive, and
\* no step clears or lowers its token_invalidation_timestamp; so after a lock
\* and an unlock the company is active again with the stamp of the lock and
\* the users the lock deactivated.
C28_ReactivationChangesOnlyTheFlag ==
    [][/\ ( /\ response'.op = "toggle_company_lock" /\ response'.status = 200
            /\ now' = now
            /\ ~companies["c1"].is_active )
          => /\ companies' = [companies EXCEPT !["c1"].is_active = TRUE]
             /\ users' = users
             /\ revoked_tokens' = revoked_tokens
             /\ companies'["c1"].token_invalidation_timestamp # NoDate
       /\ \A c \in DOMAIN companies :
             companies'[c].token_invalidation_timestamp
                >= companies[c].token_invalidation_timestamp]_vars

C28_UnlockedWithInactiveUsers ==
    /\ response.op = "toggle_company_lock" /\ response.status = 200
    /\ companies["c1"].is_active
    /\ companies["c1"].token_invalidation_timestamp > 0
    /\ \A u \in DOMAIN users : users[u].company_id = "c1" => ~users[u].is_active
    /\ \E r \in revoked_tokens : r.company_id = "c1"

----------------------------------------------------------------------------
(* Properties of a consume that ends in an error *)

\* C29: a consume that ends in an error, the missing technician record of a
\* link found valid included, leaves access_count and last_accessed_at of every
\* link unchanged: only a consume that returns the calendar is counted.
C29_FailedConsumeIsNotCounted ==
    [][(response'.op = "get_shared_calendar" /\ response'.status # 200)
          => share_links' = share_links]_vars

----------------------------------------------------------------------------
(* Properties of the WebSocket sessions *)

\* C30: the end of a session affects only its own socket: the step in which a
\* session ends neither closes the socket of another session, nor cancels its
\* heartbeat task, nor removes it from active_connections.
C30_DisconnectTouchesOwnSocketOnly ==
    [][\A s \in SocketIds :
          (~websockets[s].ended /\ websockets'[s].ended)
             => \A r \in SocketIds \ {s} :
                   /\ websockets'[r].state = websockets[r].state
                   /\ tasks'[r] = tasks[r]
                   /\ \A c \in ClientIds :
                         manager.active_connections[c] = r
                            => manager'.active_connections[c] = r]_vars

====
